---- MODULE Spec2Model ----
(***************************************************************************)
(* The file-name rule of eslint-plugin-angular (src/rules/file-name.js).   *)
(* A JavaScript string is modelled as a sequence of one-character strings, *)
(* so that slicing, searching, case conversion and concatenation are       *)
(* computed character by character as the code computes them.              *)
(***************************************************************************)
EXTENDS Integers, Sequences, FiniteSets, TLC

VARIABLES context, options, filename, node, outcome, expectedName, report,
          value, applied

vars == <<context, options, filename, node, outcome, expectedName, report,
          value, applied>>

(***************************************************************************)
(* JavaScript built-ins used by the rule.                                  *)
(***************************************************************************)

\* the upper-case form of each letter of [a-z]
upperOf ==
    [a |-> "A", b |-> "B", c |-> "C", d |-> "D", e |-> "E", f |-> "F",
     g |-> "G", h |-> "H", i |-> "I", j |-> "J", k |-> "K", l |-> "L",
     m |-> "M", n |-> "N", o |-> "O", p |-> "P", q |-> "Q", r |-> "R",
     s |-> "S", t |-> "T", u |-> "U", v |-> "V", w |-> "W", x |-> "X",
     y |-> "Y", z |-> "Z"]

\* the lower-case form of each letter of [A-Z]
lowerOf ==
    [A |-> "a", B |-> "b", C |-> "c", D |-> "d", E |-> "e", F |-> "f",
     G |-> "g", H |-> "h", I |-> "i", J |-> "j", K |-> "k", L |-> "l",
     M |-> "m", N |-> "n", O |-> "o", P |-> "p", Q |-> "q", R |-> "r",
     S |-> "s", T |-> "t", U |-> "u", V |-> "v", W |-> "w", X |-> "x",
     Y |-> "y", Z |-> "z"]

\* the character class [a-z]
isLower(c) == c \in DOMAIN upperOf

\* the character class [A-Z]
isUpper(c) == c \in DOMAIN lowerOf

charToUpperCase(c) == IF isLower(c) THEN upperOf[c] ELSE c

charToLowerCase(c) == IF isUpper(c) THEN lowerOf[c] ELSE c

\* String.prototype.toLowerCase
toLowerCase(s) == [i \in 1..Len(s) |-> charToLowerCase(s[i])]

\* String.prototype.slice(begin) and slice(begin, end), 0-based, 0 <= begin
slice(s, begin, end) ==
    IF begin >= end \/ begin >= Len(s) THEN <<>>
    ELSE SubSeq(s, begin + 1, IF end > Len(s) THEN Len(s) ELSE end)

sliceFrom(s, begin) == slice(s, begin, Len(s))

\* String.prototype.indexOf: the 0-based position of the FIRST occurrence, or -1
indexOf(s, sub) ==
    LET hits == {i \in 0..(Len(s) - Len(sub)) : slice(s, i, i + Len(sub)) = sub}
    IN IF hits = {} THEN -1 ELSE CHOOSE i \in hits : \A j \in hits : i <= j

\* a value or a thrown exception
Return(v) == [error |-> "none", value |-> v]

Throw(e) == [error |-> e, value |-> <<>>]

\* new RegExp(source) throws a SyntaxError when a group is left open or closed
\* twice; the pattern alphabet of this model is letters, ".", "$", "(" and ")"
regExpIsValid(source) ==
    LET depth(k) == Cardinality({i \in 1..k : source[i] = "("})
                    - Cardinality({i \in 1..k : source[i] = ")"})
    IN /\ \A k \in 1..Len(source) : depth(k) >= 0
       /\ depth(Len(source)) = 0

\* /^<source>[A-Z]/.test(s) from pattern element i and 0-based position pos:
\* a letter matches itself, "." any character, "$" only the end of the input,
\* a group is transparent, and the final class needs one upper-case letter
RECURSIVE regExpMatch(_, _, _, _)
regExpMatch(source, i, s, pos) ==
    IF i > Len(source) THEN pos < Len(s) /\ isUpper(s[pos + 1])
    ELSE IF source[i] \in {"(", ")"} THEN regExpMatch(source, i + 1, s, pos)
    ELSE IF source[i] = "$" THEN pos = Len(s) /\ regExpMatch(source, i + 1, s, pos)
    ELSE IF source[i] = "." THEN pos < Len(s) /\ regExpMatch(source, i + 1, s, pos + 1)
    ELSE pos < Len(s) /\ s[pos + 1] = source[i]
         /\ regExpMatch(source, i + 1, s, pos + 1)

\* s.replace(/([a-z])([A-Z])/g, '$1' + sep + '$2') scanned from 0-based
\* position i: a match consumes both letters and the scan resumes after them
RECURSIVE replaceLowerUpper(_, _, _)
replaceLowerUpper(s, i, sep) ==
    IF i >= Len(s) THEN <<>>
    ELSE IF i + 1 < Len(s) /\ isLower(s[i + 1]) /\ isUpper(s[i + 2])
    THEN <<s[i + 1]>> \o sep \o <<s[i + 2]>> \o replaceLowerUpper(s, i + 2, sep)
    ELSE <<s[i + 1]>> \o replaceLowerUpper(s, i + 1, sep)

(***************************************************************************)
(* The rule's tables.                                                      *)
(***************************************************************************)

fileEnding == <<".", "j", "s">>

separators == [dot |-> <<".">>, dash |-> <<"-">>, underscore |-> <<"_">>]

\* what an object literal inherits from Object.prototype, as the text it
\* concatenates to; "constructor" stands for the inherited members
objectPrototype == [constructor |-> <<"f", "u", "n", "c", "t", "i", "o", "n", " ", "O", "b", "j", "e", "c", "t", "(", ")", " ", "{", " ", "[", "n", "a", "t", "i", "v", "e", " ", "c", "o", "d", "e", "]", " ", "}">>]

\* separators[key]: an own property, else an inherited one, else undefined
separatorsLookup(key) ==
    IF key \in DOMAIN separators THEN [defined |-> TRUE, text |-> separators[key]]
    ELSE IF key \in DOMAIN objectPrototype
    THEN [defined |-> TRUE, text |-> objectPrototype[key]]
    ELSE [defined |-> FALSE, text |-> <<>>]

\* the table with every kind mapped to its own name
componentTypeMappingsByKind ==
    [module |-> <<"m", "o", "d", "u", "l", "e">>,
     controller |-> <<"c", "o", "n", "t", "r", "o", "l", "l", "e", "r">>,
     directive |-> <<"d", "i", "r", "e", "c", "t", "i", "v", "e">>,
     filter |-> <<"f", "i", "l", "t", "e", "r">>,
     service |-> <<"s", "e", "r", "v", "i", "c", "e">>,
     factory |-> <<"f", "a", "c", "t", "o", "r", "y">>,
     provider |-> <<"p", "r", "o", "v", "i", "d", "e", "r">>,
     value |-> <<"v", "a", "l", "u", "e">>,
     constant |-> <<"c", "o", "n", "s", "t", "a", "n", "t">>]

componentTypeMappings ==
    [module |-> <<"m", "o", "d", "u", "l", "e">>,
     controller |-> <<"c", "o", "n", "t", "r", "o", "l", "l", "e", "r">>,
     directive |-> <<"d", "i", "r", "e", "c", "t", "i", "v", "e">>,
     filter |-> <<"f", "i", "l", "t", "e", "r">>,
     service |-> <<"s", "e", "r", "v", "i", "c", "e">>,
     factory |-> <<"s", "e", "r", "v", "i", "c", "e">>,
     provider |-> <<"s", "e", "r", "v", "i", "c", "e">>,
     value |-> <<"s", "e", "r", "v", "i", "c", "e">>,
     constant |-> <<"c", "o", "n", "s", "t", "a", "n", "t">>]

\* options.<key>; an absent option reads as undefined, which as a property
\* key is the string "undefined"
optionKey(opts, key) == IF key \in DOMAIN opts THEN opts[key] ELSE "undefined"

(***************************************************************************)
(* filenameUtil                                                            *)
(***************************************************************************)

firstToUpper(v) == <<charToUpperCase(v[1])>> \o sliceFrom(v, 1)

\* value[0] is undefined for the empty string: a TypeError
firstToLower(v) ==
    IF v = <<>> THEN Throw("TypeError")
    ELSE Return(<<charToLowerCase(v[1])>> \o sliceFrom(v, 1))

\* removeTypeSuffix with the length guard off by one (< 0 for <= 0)
removeTypeSuffixOfEqualLength(name, type) ==
    LET nameTypeLengthDiff == Len(name) - Len(type)
        typeCamelCase == firstToUpper(type)
    IN IF nameTypeLengthDiff < 0 THEN name
       ELSE IF indexOf(name, typeCamelCase) = nameTypeLengthDiff
       THEN slice(name, 0, nameTypeLengthDiff)
       ELSE name

removeTypeSuffix(name, type) ==
    LET nameTypeLengthDiff == Len(name) - Len(type)
        typeCamelCase == firstToUpper(type)
    IN IF nameTypeLengthDiff <= 0 THEN name
       ELSE IF indexOf(name, typeCamelCase) = nameTypeLengthDiff
       THEN slice(name, 0, nameTypeLengthDiff)
       ELSE name

removePrefix(name, opts) ==
    IF ~regExpIsValid(opts.ignorePrefix) THEN Throw("SyntaxError")
    ELSE IF regExpMatch(opts.ignorePrefix, 1, name, 0)
    THEN firstToLower(sliceFrom(name, Len(opts.ignorePrefix)))
    ELSE Return(name)

\* transformComponentName without the final toLowerCase()
transformComponentNameKeepingCase(name, opts) ==
    LET nameSeparator == separatorsLookup(optionKey(opts, "nameStyle"))
    IN IF nameSeparator.defined
       THEN replaceLowerUpper(name, 0, nameSeparator.text)
       ELSE name

transformComponentName(name, opts) ==
    LET nameSeparator == separatorsLookup(optionKey(opts, "nameStyle"))
    IN IF nameSeparator.defined
       THEN toLowerCase(replaceLowerUpper(name, 0, nameSeparator.text))
       ELSE name

\* createExpectedName with the prefix removed before the type suffix
createExpectedNamePrefixFirst(name, type, opts) ==
    LET typeSeparator == separatorsLookup(optionKey(opts, "typeSeparator"))
        unprefixed == IF "ignorePrefix" \in DOMAIN opts /\ Len(opts.ignorePrefix) > 0
                      THEN removePrefix(name, opts)
                      ELSE Return(name)
        stripped == IF "ignoreTypeSuffix" \in DOMAIN opts /\ opts.ignoreTypeSuffix
                    THEN removeTypeSuffix(unprefixed.value, type)
                    ELSE unprefixed.value
        styled == IF "nameStyle" \in DOMAIN opts
                  THEN transformComponentName(stripped, opts)
                  ELSE stripped
        typed == IF typeSeparator.defined
                 THEN styled \o typeSeparator.text \o type
                 ELSE styled
    IN IF unprefixed.error # "none" THEN unprefixed
       ELSE Return(typed \o fileEnding)

createExpectedName(name, type, opts) ==
    LET typeSeparator == separatorsLookup(optionKey(opts, "typeSeparator"))
        stripped == IF "ignoreTypeSuffix" \in DOMAIN opts /\ opts.ignoreTypeSuffix
                    THEN removeTypeSuffix(name, type)
                    ELSE name
        unprefixed == IF "ignorePrefix" \in DOMAIN opts /\ Len(opts.ignorePrefix) > 0
                      THEN removePrefix(stripped, opts)
                      ELSE Return(stripped)
        styled == IF "nameStyle" \in DOMAIN opts
                  THEN transformComponentName(unprefixed.value, opts)
                  ELSE unprefixed.value
        typed == IF typeSeparator.defined
                 THEN styled \o typeSeparator.text \o type
                 ELSE styled
    IN IF unprefixed.error # "none" THEN unprefixed
       ELSE Return(typed \o fileEnding)

\* the path compared as it is, directory included
basenameWithDirectory(p) == p

\* path.basename: the last segment of the path, trailing separators ignored
RECURSIVE basename(_)
basename(p) ==
    IF p = <<>> THEN <<>>
    ELSE IF p[Len(p)] = "/" THEN basename(SubSeq(p, 1, Len(p) - 1))
    ELSE LET slashes == {i \in 1..Len(p) : p[i] = "/"}
         IN IF slashes = {} THEN p
            ELSE SubSeq(p, 1 + (CHOOSE i \in slashes : \A j \in slashes : j <= i), Len(p))


(***************************************************************************)
(* The rule: module.exports(context) and its CallExpression handler.       *)
(***************************************************************************)

\* var options = context.options[0] || {}; var filename = path.basename(...)
create(ctx) ==
    [options |-> IF Len(ctx.options) > 0 THEN ctx.options[1] ELSE <<>>,
     filename |-> basename(ctx.filename)]

\* componentTypeMappings[node.callee.property.name]
typeOf(property) ==
    IF property \in DOMAIN componentTypeMappings
    THEN [defined |-> TRUE, type |-> componentTypeMappings[property]]
    ELSE [defined |-> FALSE, type |-> <<>>]

\* the message context.report renders from 'Filename must be "{{expectedName}}"'
reportMessage(expected) == <<"F", "i", "l", "e", "n", "a", "m", "e", " ", "m", "u", "s", "t", " ", "b", "e", " ", "\"">> \o expected \o <<"\"">>

\* the visit with every declaration on $provide skipped, whatever its kind
visitSkippingProvide(n, opts, file) ==
    LET type == typeOf(n.property)
        expected == createExpectedName(n.name, type.type, opts)
    IN IF ~n.component
       THEN [outcome |-> "ignored", expectedName |-> <<>>, report |-> <<>>]
       ELSE IF ~type.defined \/ n.object = "$provide"
       THEN [outcome |-> "skipped", expectedName |-> <<>>, report |-> <<>>]
       ELSE IF expected.error # "none"
       THEN [outcome |-> expected.error, expectedName |-> <<>>, report |-> <<>>]
       ELSE IF expected.value # file
       THEN [outcome |-> "report", expectedName |-> expected.value,
             report |-> reportMessage(expected.value)]
       ELSE [outcome |-> "pass", expectedName |-> expected.value, report |-> <<>>]

\* what one visit of a call expression does: nothing for a call that is no
\* component declaration, a return for an unmapped kind or a service-like
\* declaration on $provide, else a comparison and possibly a report
visit(n, opts, file) ==
    LET type == typeOf(n.property)
        expected == createExpectedName(n.name, type.type, opts)
    IN IF ~n.component
       THEN [outcome |-> "ignored", expectedName |-> <<>>, report |-> <<>>]
       ELSE IF ~type.defined \/ (type.type = <<"s", "e", "r", "v", "i", "c", "e">> /\ n.object = "$provide")
       THEN [outcome |-> "skipped", expectedName |-> <<>>, report |-> <<>>]
       ELSE IF expected.error # "none"
       THEN [outcome |-> expected.error, expectedName |-> <<>>, report |-> <<>>]
       ELSE IF expected.value # file
       THEN [outcome |-> "report", expectedName |-> expected.value,
             report |-> reportMessage(expected.value)]
       ELSE [outcome |-> "pass", expectedName |-> expected.value, report |-> <<>>]

(***************************************************************************)
(* Inputs.                                                                 *)
(***************************************************************************)

\* the number of words a generated component name is made of
MaxWords == 2

Words == {<<"s", "t">>, <<"A", "p", "p">>, <<"S", "e", "r", "v", "i", "c", "e">>, <<"s", "e", "r", "v", "i", "c", "e">>, <<"s", "t", "A", "p", "p", "U", "t", "i", "l", "s">>}

RECURSIVE NamesOf(_)
NamesOf(k) == IF k = 0 THEN {<<>>} ELSE {w \o n : w \in Words, n \in NamesOf(k - 1)}

Names == UNION {NamesOf(k) : k \in 1..MaxWords}

Types == {componentTypeMappings[k] : k \in DOMAIN componentTypeMappings}

\* an option that is absent, or present with one of the values
Option(key, values) == {<<>>} \cup {key :> v : v \in values}

Prefixes == {<<>>, <<"s", "t">>, <<"s", ".">>, <<"$">>, <<"(">>}

StyleKeys == {"dash", "dot", "underscore", "camel"}

SeparatorKeys == {"dash", "dot", "underscore", "camel", "constructor"}

OptionObjects ==
    {a @@ b @@ c @@ d : a \in Option("ignoreTypeSuffix", {TRUE, FALSE}),
                        b \in Option("ignorePrefix", {<<>>, <<"s", "t">>, <<"(">>}),
                        c \in Option("nameStyle", {"dash", "camel"}),
                        d \in Option("typeSeparator", SeparatorKeys)}

RuleOptionObjects ==
    {a @@ b @@ c @@ d : a \in Option("ignoreTypeSuffix", {TRUE}),
                        b \in Option("ignorePrefix", {<<"s", "t">>}),
                        c \in Option("nameStyle", {"dash"}),
                        d \in Option("typeSeparator", {"dot"})}

RuleFilenames ==
    {<<"A", "p", "p", ".", "j", "s">>, <<"s", "r", "c", "/", "A", "p", "p", ".", "j", "s">>, <<"s", "r", "c", "/", "a", "p", "p", ".", "j", "s">>, <<"s", "r", "c", "/", "a", "p", "p", "/", "a", "p", "p", ".", "s", "e", "r", "v", "i", "c", "e", ".", "j", "s">>,
     <<"s", "r", "c", "/", "A", "p", "p", ".", "s", "e", "r", "v", "i", "c", "e", ".", "j", "s">>}

Contexts ==
    {[options |-> o, filename |-> f] :
        o \in {<<>>} \cup {<<x>> : x \in RuleOptionObjects}, f \in RuleFilenames}

RuleNames == {<<"A", "p", "p">>, <<"s", "t", "A", "p", "p">>, <<"A", "p", "p", "S", "e", "r", "v", "i", "c", "e">>, <<"A", "p", "p", "F", "a", "c", "t", "o", "r", "y">>}

Properties == DOMAIN componentTypeMappings \cup {"run"}

Nodes ==
    [component : {TRUE}, property : Properties, object : {"app", "$provide"},
     name : RuleNames]
    \cup {[component |-> FALSE, property |-> "factory", object |-> "app",
           name |-> <<"A", "p", "p">>]}

NoNode == [component |-> FALSE, property |-> "", object |-> "", name |-> <<>>]

NoCall == [fn |-> "none", input |-> <<>>, type |-> <<>>, opts |-> <<>>, error |-> "none"]

NoContext == [options |-> <<>>, filename |-> <<>>]

(***************************************************************************)
(* Spec: one rule instance per linted file, visiting call expressions.     *)
(***************************************************************************)

Init ==
    /\ context \in Contexts
    /\ options = create(context).options
    /\ filename = create(context).filename
    /\ node = NoNode
    /\ outcome = "idle"
    /\ expectedName = <<>>
    /\ report = <<>>
    /\ value = <<>>
    /\ applied = NoCall

CallExpression(n) ==
    LET v == visit(n, options, filename)
    IN /\ node' = n
       /\ outcome' = v.outcome
       /\ expectedName' = v.expectedName
       /\ report' = v.report
       /\ UNCHANGED <<context, options, filename, value, applied>>

Next == \E n \in Nodes : CallExpression(n)

Spec == Init /\ [][Next]_vars

(***************************************************************************)
(* SpecUtil: the functions of filenameUtil, each applied to a name.        *)
(***************************************************************************)

InitUtil ==
    /\ value \in Names
    /\ applied = NoCall
    /\ context = NoContext
    /\ options = <<>>
    /\ filename = <<>>
    /\ node = NoNode
    /\ outcome = "idle"
    /\ expectedName = <<>>
    /\ report = <<>>

Called(fn, type, opts, result) ==
    /\ applied.fn = "none"
    /\ applied' = [fn |-> fn, input |-> value, type |-> type, opts |-> opts,
                   error |-> result.error]
    /\ value' = result.value
    /\ UNCHANGED <<context, options, filename, node, outcome, expectedName, report>>

CallRemoveTypeSuffix(type) ==
    Called("removeTypeSuffix", type, <<>>, Return(removeTypeSuffix(value, type)))

\* createExpectedName calls removePrefix with a non-empty ignorePrefix only
CallRemovePrefix(opts) ==
    /\ Len(opts.ignorePrefix) > 0
    /\ Called("removePrefix", <<>>, opts, removePrefix(value, opts))

CallTransformComponentName(opts) ==
    Called("transformComponentName", <<>>, opts,
           Return(transformComponentName(value, opts)))

CallCreateExpectedName(type, opts) ==
    Called("createExpectedName", type, opts, createExpectedName(value, type, opts))

NextUtil ==
    \/ \E t \in Types : CallRemoveTypeSuffix(t)
    \/ \E p \in Prefixes : CallRemovePrefix("ignorePrefix" :> p)
    \/ \E o \in Option("nameStyle", StyleKeys) : CallTransformComponentName(o)
    \/ \E t \in Types, o \in OptionObjects : CallCreateExpectedName(t, o)

SpecUtil == InitUtil /\ [][NextUtil]_vars

(***************************************************************************)
(* Properties.                                                             *)
(***************************************************************************)

EndsWith(s, t) == Len(t) <= Len(s) /\ SubSeq(s, Len(s) - Len(t) + 1, Len(s)) = t

StartsWith(s, t) == Len(t) <= Len(s) /\ SubSeq(s, 1, Len(t)) = t

\* b is path without its directory part
IsBaseNameOf(b, path) ==
    \E k \in 0..Len(path) :
        /\ b = SubSeq(path, k + 1, Len(path))
        /\ \A i \in 1..Len(b) : b[i] # "/"
        /\ k = 0 \/ path[k] = "/"

ServiceKinds == {"service", "factory", "provider", "value"}

Evaluated == outcome \in {"pass", "report"}

\* C1: a declaration of a table kind that is not excluded is reported if and
\* only if its expected filename differs, case-sensitively, from the base name
\* of the linted file; the message is 'Filename must be "<expected>"' with
\* that expected filename, and nothing is reported when they are equal.
C1_ReportIffMismatch ==
    (outcome # "idle" /\ node.component /\ node.property \in DOMAIN componentTypeMappings
     /\ ~(node.property \in ServiceKinds /\ node.object = "$provide"))
    => LET expected ==
               createExpectedName(node.name, componentTypeMappings[node.property],
                                  options).value
       IN /\ Evaluated
          /\ outcome = "report" <=> ~IsBaseNameOf(expected, context.filename)
          /\ outcome = "report"
             => report = <<"F", "i", "l", "e", "n", "a", "m", "e", " ", "m", "u", "s", "t", " ", "b", "e", " ", "\"">> \o expected \o <<"\"">>
          /\ outcome = "pass" => report = <<>>

\* a report for a file in a directory whose base name differs from the
\* expected filename only in case
C1_Witness ==
    /\ outcome = "report"
    /\ \E i \in 1..Len(context.filename) : context.filename[i] = "/"
    /\ expectedName # filename
    /\ toLowerCase(expectedName) = toLowerCase(filename)

\* the expected filename of a service-like kind ("service" token) and of the
\* other kinds (the token named like the kind)
C4_Token ==
    [module |-> <<"m", "o", "d", "u", "l", "e">>, controller |-> <<"c", "o", "n", "t", "r", "o", "l", "l", "e", "r">>,
     directive |-> <<"d", "i", "r", "e", "c", "t", "i", "v", "e">>, filter |-> <<"f", "i", "l", "t", "e", "r">>,
     constant |-> <<"c", "o", "n", "s", "t", "a", "n", "t">>]

\* C4: service, factory, provider and value declarations of one name get one
\* expected filename, built with the token "service" both as the appended type
\* and as the suffix to strip; every other kind uses the token named like it.
C4_ServiceKindsCollapse ==
    Evaluated
    => LET token == IF node.property \in ServiceKinds THEN <<"s", "e", "r", "v", "i", "c", "e">>
                    ELSE C4_Token[node.property]
       IN /\ expectedName = createExpectedName(node.name, token, options).value
          /\ node.property \in ServiceKinds
             => \A k \in ServiceKinds :
                    visit([node EXCEPT !.property = k], options, filename).expectedName
                    = expectedName
          /\ optionKey(options, "typeSeparator") = "dot"
             => EndsWith(expectedName, <<".">> \o token \o <<".", "j", "s">>)

\* a factory named AppService passes as App.service.js
C4_Witness ==
    /\ outcome = "pass"
    /\ node.property = "factory"
    /\ node.name = <<"A", "p", "p", "S", "e", "r", "v", "i", "c", "e">>
    /\ expectedName = <<"A", "p", "p", ".", "s", "e", "r", "v", "i", "c", "e", ".", "j", "s">>

\* C5: a declaration of a table kind is skipped exactly when its kind is
\* service-like and it is declared on $provide; otherwise it is evaluated and
\* the verdict is the one the same declaration gets on any other object.
C5_SkipOnlyServiceOnProvide ==
    (outcome # "idle" /\ node.component /\ node.property \in DOMAIN componentTypeMappings)
    => /\ outcome = "skipped"
          <=> (node.property \in ServiceKinds /\ node.object = "$provide")
       /\ outcome # "skipped"
          => /\ Evaluated
             /\ \A obj \in {"app", "angular", "$provide"} :
                    (obj = "$provide" => node.property \notin ServiceKinds)
                    => visit([node EXCEPT !.object = obj], options, filename)
                       = [outcome |-> outcome, expectedName |-> expectedName,
                          report |-> report]

\* a value on $provide is skipped although the file name would not match
C5_Witness ==
    /\ outcome = "skipped"
    /\ node.property = "value"
    /\ node.object = "$provide"
    /\ visit([node EXCEPT !.object = "app"], options, filename).outcome = "report"

IsCall(fn) == applied.fn = fn /\ applied.error = "none"

\* the normalized name: suffix strip, then prefix strip, then case conversion,
\* each only when its option enables it
Normalized(name, type, opts) ==
    LET a == IF "ignoreTypeSuffix" \in DOMAIN opts /\ opts.ignoreTypeSuffix
             THEN removeTypeSuffix(name, type) ELSE name
        b == IF "ignorePrefix" \in DOMAIN opts /\ opts.ignorePrefix # <<>>
             THEN removePrefix(a, opts).value ELSE a
    IN IF "nameStyle" \in DOMAIN opts THEN transformComponentName(b, opts) ELSE b

SepChar == [dash |-> <<"-">>, dot |-> <<".">>, underscore |-> <<"_">>]

\* C2: the expected filename is normalizedName + sepChar + typeToken + '.js'
\* for typeSeparator dash, dot or underscore, and normalizedName + '.js' when
\* typeSeparator is absent or any other key.
C2_SeparatorAndToken ==
    IsCall("createExpectedName")
    => LET key == optionKey(applied.opts, "typeSeparator")
           name == Normalized(applied.input, applied.type, applied.opts)
       IN /\ key \in DOMAIN SepChar
             => value = name \o SepChar[key] \o applied.type \o <<".", "j", "s">>
          /\ key \notin DOMAIN SepChar => value = name \o <<".", "j", "s">>
          /\ EndsWith(value, <<".", "j", "s">>)

\* C3: the name part of the expected filename is the declared name after
\* suffix strip, prefix strip and case conversion, in that order.
C3_NormalizationOrder ==
    IsCall("createExpectedName")
    => LET sep == separatorsLookup(optionKey(applied.opts, "typeSeparator"))
           tail == (IF sep.defined THEN sep.text \o applied.type ELSE <<>>) \o <<".", "j", "s">>
       IN value = Normalized(applied.input, applied.type, applied.opts) \o tail

\* a name on which all three steps act
C3_Witness ==
    /\ IsCall("createExpectedName")
    /\ applied.input = <<"s", "t", "A", "p", "p", "U", "t", "i", "l", "s", "S", "e", "r", "v", "i", "c", "e">>
    /\ value = <<"a", "p", "p", "-", "u", "t", "i", "l", "s", ".", "s", "e", "r", "v", "i", "c", "e", ".", "j", "s">>

\* C6: a name longer than the type token loses its last len(token) characters
\* whenever it ends with the capitalized token, wherever else the token
\* occurs, and is returned unchanged otherwise.
C6_SuffixStripped ==
    (IsCall("removeTypeSuffix") /\ Len(applied.input) > Len(applied.type))
    => LET cap == <<charToUpperCase(applied.type[1])>> \o Tail(applied.type)
       IN IF EndsWith(applied.input, cap)
          THEN value = SubSeq(applied.input, 1, Len(applied.input) - Len(applied.type))
          ELSE value = applied.input

\* C7: a non-empty prefix is stripped only when the name begins with it,
\* compared literally, and an upper-case letter follows; the rest then has its
\* first letter lower-cased; in every other case the name is unchanged.
C7_LiteralPrefix ==
    IsCall("removePrefix")
    => LET prefix == applied.opts.ignorePrefix
           name == applied.input
       IN IF /\ StartsWith(name, prefix)
             /\ Len(name) > Len(prefix)
             /\ isUpper(name[Len(prefix) + 1])
          THEN value = <<charToLowerCase(name[Len(prefix) + 1])>>
                       \o SubSeq(name, Len(prefix) + 2, Len(name))
          ELSE value = name

\* C8: createExpectedName returns a string for every name, table kind and
\* policy, and never raises an error.
C8_Total == applied.fn = "createExpectedName" => applied.error = "none"

IsLowerCased(s) == \A i \in 1..Len(s) : ~isUpper(s[i])

\* the separator after every lower-case letter directly followed by an
\* upper-case one, all letters lower-cased
RECURSIVE Separated(_, _, _)
Separated(s, i, sep) ==
    IF i > Len(s) THEN <<>>
    ELSE <<charToLowerCase(s[i])>>
         \o (IF i < Len(s) /\ isLower(s[i]) /\ isUpper(s[i + 1]) THEN sep ELSE <<>>)
         \o Separated(s, i + 1, sep)

\* C9: for the styles dash, dot and underscore, converting a name without
\* upper-case letters changes nothing, converting a converted name changes
\* nothing, and the converted name has no upper-case letter and the separator
\* at every lower-to-upper boundary.
C9_CaseConversionIdempotent ==
    (IsCall("transformComponentName")
     /\ optionKey(applied.opts, "nameStyle") \in DOMAIN SepChar)
    => /\ IsLowerCased(applied.input) => value = applied.input
       /\ transformComponentName(value, applied.opts) = value
       /\ IsLowerCased(value)
       /\ value = Separated(applied.input, 1, SepChar[applied.opts.nameStyle])

\* a name with two boundaries converted with underscores
C9_Witness ==
    /\ IsCall("transformComponentName")
    /\ applied.input = <<"s", "t", "A", "p", "p", "U", "t", "i", "l", "s">>
    /\ value = <<"s", "t", "_", "a", "p", "p", "_", "u", "t", "i", "l", "s">>

IsLetters(s) == \A i \in 1..Len(s) : isLower(s[i]) \/ isUpper(s[i])

\* C10: with a letters-only ignorePrefix the name part of the expected
\* filename, before the type separator or before '.js', is never empty.
C10_NameNeverEmpty ==
    (IsCall("createExpectedName")
     /\ ("ignorePrefix" \in DOMAIN applied.opts => IsLetters(applied.opts.ignorePrefix)))
    => LET sep == separatorsLookup(optionKey(applied.opts, "typeSeparator"))
           tail == (IF sep.defined THEN sep.text \o applied.type ELSE <<>>) \o <<".", "j", "s">>
       IN /\ EndsWith(value, tail)
          /\ Len(value) > Len(tail)
          /\ value # <<".", "j", "s">>

\* a name that is exactly the capitalized token keeps it although suffixes
\* are ignored
C10_Witness ==
    /\ IsCall("createExpectedName")
    /\ applied.input = <<"S", "e", "r", "v", "i", "c", "e">>
    /\ applied.type = <<"s", "e", "r", "v", "i", "c", "e">>
    /\ "ignoreTypeSuffix" \in DOMAIN applied.opts
    /\ value = <<"S", "e", "r", "v", "i", "c", "e", ".", "s", "e", "r", "v", "i", "c", "e", ".", "j", "s">>

====
